---- MODULE Spec2Model ----
(***************************************************************************)
(* Model of library/grafana_org.py: the Ansible module grafana_org, which  *)
(* reconciles one Grafana organization (lookup by name, then at most one   *)
(* create or delete) against a remote Grafana HTTP API.                    *)
(*                                                                         *)
(* One invocation of run_module is split at its network round trips:       *)
(*   Start      -> argument parsing, result dict, AnsibleModule            *)
(*   Observe    -> GET /api/orgs/name/<name> and grafana_org_exists        *)
(*   Create     -> POST /api/orgs, grafana_org_create, exit/fail           *)
(*   Delete     -> DELETE /api/orgs/<id>, grafana_org_delete, exit/fail    *)
(*   NoMutation -> the six branches of run_module that call nothing        *)
(* The remote server and the transport (fetch_url) are the environment:    *)
(* every response they can produce is a nondeterministic choice.           *)
(***************************************************************************)
EXTENDS Integers, Sequences, FiniteSets, TLC

VARIABLES
    remote,      \* the server's organizations: set of [id, name]
    nextId,      \* the id the server gives to the next organization
    pc,          \* position of the current invocation of run_module
    params,      \* module.params / module.check_mode of the invocation
    org_exists,  \* the GrafanaOrganization returned by grafana_org_exists
    result,      \* the result dict of run_module
    calls,       \* fetch_url calls issued by the invocation, in order
    reports,     \* exit_json / fail_json calls of the invocation, in order
    raised,      \* the exception caught by run_module, if any
    remote0,     \* the server's organizations when the invocation started
    served,      \* the server's organizations right after the last request
    last_resp,   \* the (r, info) of the invocation's latest fetch_url call
    prev,        \* summary of the invocation that ran before the current one
    runs         \* number of invocations started so far

vars == <<remote, nextId, pc, params, org_exists, result, calls, reports,
          raised, remote0, served, last_resp, prev, runs>>

\* ---------------------------------------------------------------- bounds
MaxRuns == 2

Names == {"acme", "Acme"}

\* ------------------------------------------------------------- constants
\* the status run_module's helpers test for: info['status'] == 200
HTTP_OK == 200

\* the other statuses the environment answers with; -1 is what fetch_url
\* reports when no connection was made
HTTP == [not_found |-> 404, conflict |-> 409, server_error |-> 500,
         no_connection |-> -1]

None == "<None>"

\* ------------------------------------------------------ GrafanaOrganization
GrafanaOrganization ==
    [organization_id |-> -1, organization_name |-> None,
     organization_status |-> -1, message |-> None]

\* GrafanaOrganization.set with all four keyword arguments given
OrgSet(id, name, status, message) ==
    [organization_id |-> id, organization_name |-> name,
     organization_status |-> status, message |-> message]

\* GrafanaOrganization.set without organization_id: kwargs.get default -1
OrgSetNoId(name, status, message) ==
    [organization_id |-> -1, organization_name |-> name,
     organization_status |-> status, message |-> message]

\* ------------------------------------------------------- transport payloads
\* A payload is what r.read() or info["body"] yields: kind "none" (no
\* response object / no body key), "garbage" (not JSON) or "json" (an
\* object with the keys in has).
NoPayload ==
    [kind |-> "none", has |-> {}, id |-> 0, name |-> "", orgId |-> 0,
     message |-> ""]

Garbage ==
    [kind |-> "garbage", has |-> {}, id |-> 0, name |-> "", orgId |-> 0,
     message |-> ""]

JsonOrg(has, id, name) ==
    [kind |-> "json", has |-> has,
     id |-> IF "id" \in has THEN id ELSE 0,
     name |-> IF "name" \in has THEN name ELSE "",
     orgId |-> 0, message |-> ""]

JsonCreated(has, orgId, message) ==
    [kind |-> "json", has |-> has, id |-> 0, name |-> "",
     orgId |-> IF "orgId" \in has THEN orgId ELSE 0,
     message |-> IF "message" \in has THEN message ELSE ""]

JsonMessage(has, message) ==
    [kind |-> "json", has |-> has, id |-> 0, name |-> "", orgId |-> 0,
     message |-> IF "message" \in has THEN message ELSE ""]

\* the (r, info) pair returned by fetch_url
Response(status, r, info_body) ==
    [status |-> status, r |-> r, info_body |-> info_body]

\* an error payload reaches the module through r, through info["body"],
\* or not at all
ErrorResponses(status, message) ==
    LET payloads == {Garbage} \cup
                    {JsonMessage(h, message) : h \in SUBSET {"message"}}
    IN  {Response(status, p, NoPayload) : p \in payloads}
        \cup {Response(status, NoPayload, p) : p \in payloads}
        \cup {Response(status, NoPayload, NoPayload)}

\* ------------------------------------------------------------ json / dicts
JSONDecodeError == "Expecting value: line 1 column 1 (char 0)"

\* to_text(KeyError(k))
KeyError(k) == "'" \o k \o "'"

Raise(text) == [exc |-> text, org |-> GrafanaOrganization]

Return(org) == [exc |-> "", org |-> org]

\* faulty variant: info["body"] is read without a default
ReadBody_NoDefault(resp, fallback) ==
    IF resp.r.kind # "none" THEN resp.r ELSE resp.info_body

\* body = json.loads(r.read()) if r is not None
\*        else json.loads(info.get("body", fallback))
ReadBody(resp, fallback) ==
    IF resp.r.kind # "none" THEN resp.r
    ELSE IF resp.info_body.kind # "none" THEN resp.info_body
    ELSE JsonMessage({"message"}, fallback)


\* --------------------------------------------------- the module's functions
\* faulty variant: the id is read from the body whatever the status
grafana_org_exists_KeepsBodyId(resp, org_name) ==
    LET body == ReadBody(resp, "Cannot search organization")
    IN  IF body.kind = "garbage" THEN Raise(JSONDecodeError)
        ELSE IF resp.status = HTTP_OK
        THEN IF "id" \notin body.has THEN Raise(KeyError("id"))
             ELSE IF "name" \notin body.has THEN Raise(KeyError("name"))
             ELSE Return(OrgSet(body.id, body.name, resp.status,
                                "Organization exists"))
        ELSE IF "message" \notin body.has THEN Raise(KeyError("message"))
             ELSE Return(OrgSet(body.id, org_name, resp.status, body.message))

\* faulty variant: the id is read from the field the create response uses
grafana_org_exists_WrongField(resp, org_name) ==
    LET body == ReadBody(resp, "Cannot search organization")
    IN  IF body.kind = "garbage" THEN Raise(JSONDecodeError)
        ELSE IF resp.status = HTTP_OK
        THEN IF "id" \notin body.has THEN Raise(KeyError("id"))
             ELSE IF "name" \notin body.has THEN Raise(KeyError("name"))
             ELSE Return(OrgSet(body.orgId, body.name, resp.status,
                                "Organization exists"))
        ELSE IF "message" \notin body.has THEN Raise(KeyError("message"))
             ELSE Return(OrgSetNoId(org_name, resp.status, body.message))

\* grafana_org_exists: the (r, info) of the GET is resp
grafana_org_exists(resp, org_name) ==
    LET body == ReadBody(resp, "Cannot search organization")
    IN  IF body.kind = "garbage" THEN Raise(JSONDecodeError)
        ELSE IF resp.status = HTTP_OK
        THEN IF "id" \notin body.has THEN Raise(KeyError("id"))
             ELSE IF "name" \notin body.has THEN Raise(KeyError("name"))
             ELSE Return(OrgSet(body.id, body.name, resp.status,
                                "Organization exists"))
        ELSE IF "message" \notin body.has THEN Raise(KeyError("message"))
             ELSE Return(OrgSetNoId(org_name, resp.status, body.message))

\* faulty variant: a failed create yields id 0 instead of the default -1
grafana_org_create_WrongDefault(resp, org_name) ==
    LET body == ReadBody(resp, "Organization could not be created")
    IN  IF body.kind = "garbage" THEN Raise(JSONDecodeError)
        ELSE IF resp.status = HTTP_OK
        THEN IF "orgId" \notin body.has THEN Raise(KeyError("orgId"))
             ELSE IF "message" \notin body.has THEN Raise(KeyError("message"))
             ELSE Return(OrgSet(body.orgId, org_name, resp.status,
                                body.message))
        ELSE IF "message" \notin body.has THEN Raise(KeyError("message"))
             ELSE Return(OrgSet(0, org_name, resp.status, body.message))

\* grafana_org_create: the (r, info) of the POST is resp
grafana_org_create(resp, org_name) ==
    LET body == ReadBody(resp, "Organization could not be created")
    IN  IF body.kind = "garbage" THEN Raise(JSONDecodeError)
        ELSE IF resp.status = HTTP_OK
        THEN IF "orgId" \notin body.has THEN Raise(KeyError("orgId"))
             ELSE IF "message" \notin body.has THEN Raise(KeyError("message"))
             ELSE Return(OrgSet(body.orgId, org_name, resp.status,
                                body.message))
        ELSE IF "message" \notin body.has THEN Raise(KeyError("message"))
             ELSE Return(OrgSetNoId(org_name, resp.status, body.message))

\* faulty variant: a status other than 200 is turned into an exception
grafana_org_delete_RaisesOnError(resp, org_name, org_id) ==
    LET body == ReadBody(resp, "Organization could not be deleted")
    IN  IF body.kind = "garbage" THEN Raise(JSONDecodeError)
        ELSE IF "message" \notin body.has THEN Raise(KeyError("message"))
        ELSE IF resp.status = HTTP_OK
        THEN Return(OrgSet(org_id, org_name, resp.status, body.message))
        ELSE Raise(body.message)

\* grafana_org_delete: the (r, info) of the DELETE is resp
grafana_org_delete(resp, org_name, org_id) ==
    LET body == ReadBody(resp, "Organization could not be deleted")
    IN  IF body.kind = "garbage" THEN Raise(JSONDecodeError)
        ELSE IF "message" \notin body.has THEN Raise(KeyError("message"))
        ELSE IF resp.status = HTTP_OK
        THEN Return(OrgSet(org_id, org_name, resp.status, body.message))
        ELSE Return(OrgSetNoId(org_name, resp.status, body.message))

\* ---------------------------------------------------------- the environment
\* What the server and the transport can answer.  A status 200 is an honest
\* answer of the server; every call can also fail with an error status or
\* with no connection at all, whatever the server holds.
Found(orgs, name) == {o \in orgs : o.name = name}

GetResponses(orgs, name) ==
    (IF Found(orgs, name) # {}
     THEN LET o == CHOOSE x \in Found(orgs, name) : TRUE
          IN  {Response(HTTP_OK, p, NoPayload) :
                 p \in {Garbage} \cup
                       {JsonOrg(h, o.id, o.name) : h \in SUBSET {"id", "name"}}}
     ELSE ErrorResponses(HTTP.not_found, "Organization not found"))
    \cup ErrorResponses(HTTP.server_error, "Internal Server Error")
    \cup {Response(HTTP.no_connection, NoPayload, NoPayload)}

Outcome(resp, orgs, next) == [resp |-> resp, remote |-> orgs, nextId |-> next]

\* POST /api/orgs {name}: answers and the server's state after each
PostOutcomes(orgs, next, name) ==
    LET created == orgs \cup {[id |-> next, name |-> name]}
    IN  (IF Found(orgs, name) = {}
         THEN {Outcome(Response(HTTP_OK, p, NoPayload), created, next + 1) :
                 p \in {Garbage} \cup
                       {JsonCreated(h, next, "Organization created") :
                          h \in SUBSET {"orgId", "message"}}}
              \* the request was served and the connection then lost
              \cup {Outcome(Response(HTTP.no_connection, NoPayload, NoPayload),
                            created, next + 1)}
         ELSE {Outcome(r, orgs, next) :
                 r \in ErrorResponses(HTTP.conflict,
                                      "Organization name taken")})
        \cup {Outcome(r, orgs, next) :
                r \in ErrorResponses(HTTP.server_error,
                                     "Internal Server Error")}
        \cup {Outcome(Response(HTTP.no_connection, NoPayload, NoPayload),
                      orgs, next)}

\* DELETE /api/orgs/<id>: answers and the server's state after each
DeleteOutcomes(orgs, next, id) ==
    LET deleted == {o \in orgs : o.id # id}
    IN  (IF deleted # orgs
         THEN {Outcome(Response(HTTP_OK, p, NoPayload), deleted, next) :
                 p \in {Garbage} \cup
                       {JsonMessage(h, "Organization deleted") :
                          h \in SUBSET {"message"}}}
              \cup {Outcome(Response(HTTP.no_connection, NoPayload, NoPayload),
                            deleted, next)}
         ELSE {Outcome(r, orgs, next) :
                 r \in ErrorResponses(HTTP.not_found,
                                      "Organization not found")})
        \cup {Outcome(r, orgs, next) :
                r \in ErrorResponses(HTTP.server_error,
                                     "Internal Server Error")}
        \cup {Outcome(Response(HTTP.no_connection, NoPayload, NoPayload),
                      orgs, next)}


\* ------------------------------------------------------------- run_module
States == {"present", "absent"}

\* result = dict(changed=False, msg='', org_id='', org_name='')
ResultInit == [changed |-> FALSE, msg |-> "", org_id |-> "", org_name |-> ""]

Result(org_id, org_name, msg, changed) ==
    [changed |-> changed, msg |-> msg, org_id |-> org_id,
     org_name |-> org_name]

NotRaised == [where |-> "", text |-> ""]

\* module.exit_json(failed=False, **result)
exit_json(res) ==
    [kind |-> "exit_json", failed |-> FALSE, changed |-> res.changed,
     msg |-> res.msg, org_id |-> res.org_id, org_name |-> res.org_name]

\* faulty variant: the exception text is dropped from the failure message
fail_json_NoText(text) ==
    [kind |-> "fail_json", failed |-> TRUE, msg |-> "error : "]

\* module.fail_json(failed=True, msg="error : %s" % to_text(e))
fail_json(text) ==
    [kind |-> "fail_json", failed |-> TRUE, msg |-> "error : " \o text]

Call(method, path, data) == [method |-> method, path |-> path, data |-> data]

\* uri = '%s/api/orgs/name/%s' % (grafana_url, org_name)
OrgByNameUri(org_name) == <<"api", "orgs", "name", org_name>>

\* uri = '%s/api/orgs' % (grafana_url)
OrgsUri == <<"api", "orgs">>

\* faulty variant: the delete is addressed by the id of a fresh GrafanaOrganization
OrgByIdUri_Unset(org_id) == <<"api", "orgs", -1>>

\* uri = '%s/api/orgs/%s' % (grafana_url, org_id)
OrgByIdUri(org_id) == <<"api", "orgs", org_id>>

\* faulty variant: check mode is not consulted before creating
ShouldCreate_IgnoresCheckMode(check_mode, state, org) ==
    state = "present" /\ org.organization_id = -1

\* faulty variant: the lookup is not consulted before creating
ShouldCreate_IgnoresLookup(check_mode, state, org) ==
    ~check_mode /\ state = "present"

\* faulty variant: the desired state is not consulted before creating
ShouldCreate_AnyState(check_mode, state, org) ==
    ~check_mode /\ org.organization_id = -1

\* faulty variant: the absence test is inverted
ShouldCreate_WrongTest(check_mode, state, org) ==
    ~check_mode /\ state = "present" /\ org.organization_id # -1

\* not module.check_mode, state == 'present', organization_id == -1
ShouldCreate(check_mode, state, org) ==
    ~check_mode /\ state = "present" /\ org.organization_id = -1

\* faulty variant: the delete branch forgets to test the observed id
ShouldDelete_NoIdTest(check_mode, state, org) ==
    ~check_mode /\ state # "present"

\* not module.check_mode, state != 'present', organization_id != -1
ShouldDelete(check_mode, state, org) ==
    ~check_mode /\ state # "present" /\ org.organization_id # -1

\* faulty variant: an organization that already exists is reported as a change
PresentFoundResult_Changed(check_mode, org) ==
    Result(org.organization_id, org.organization_name,
           IF check_mode THEN "Organization already exists"
                         ELSE "Organization exists",
           TRUE)

\* lines 219-223 (not check mode) and 244-248 (check mode)
PresentFoundResult(check_mode, org) ==
    Result(org.organization_id, org.organization_name,
           IF check_mode THEN "Organization already exists"
                         ELSE "Organization exists",
           FALSE)

\* faulty variant: nothing to delete is reported as a change
AbsentMissingResult_Changed(org) ==
    Result(org.organization_id, org.organization_name,
           "Organization does not exists", TRUE)

\* lines 231-235 and 255-259
AbsentMissingResult(org) ==
    Result(org.organization_id, org.organization_name,
           "Organization does not exists", FALSE)

\* faulty variant: check mode does not announce the pending creation
CheckCreateResult_NoChange(org) ==
    Result(org.organization_id, org.organization_name,
           "Running in check mode...Organization will be created. Organization ID will be defined at creation ",
           FALSE)

\* lines 238-243
CheckCreateResult(org) ==
    Result(org.organization_id, org.organization_name,
           "Running in check mode...Organization will be created. Organization ID will be defined at creation ",
           TRUE)

\* faulty variant: check mode reports the id the organization has after deletion
CheckDeleteResult_Speculative(org) ==
    Result(-1, org.organization_name,
           "Running in check mode...Organization will be deleted.", TRUE)

\* lines 250-254
CheckDeleteResult(org) ==
    Result(org.organization_id, org.organization_name,
           "Running in check mode...Organization will be deleted.", TRUE)

\* the result of the branches of run_module that issue no call
NoCallResult(check_mode, state, org) ==
    IF ~check_mode
    THEN IF state = "present"
         THEN PresentFoundResult(FALSE, org)
         ELSE AbsentMissingResult(org)
    ELSE IF state = "present"
         THEN IF org.organization_id = -1
              THEN CheckCreateResult(org)
              ELSE PresentFoundResult(TRUE, org)
         ELSE IF org.organization_id # -1
              THEN CheckDeleteResult(org)
              ELSE AbsentMissingResult(org)

\* faulty variant: changed is taken from the outcome of the create
CreateResult_ChangedIfCreated(org_create) ==
    Result(org_create.organization_id, org_create.organization_name,
           org_create.message, org_create.organization_id # -1)

\* result after grafana_org_create returned org_create
CreateResult(org_create) ==
    Result(org_create.organization_id, org_create.organization_name,
           org_create.message, TRUE)

\* faulty variant: the id is taken from what grafana_org_delete returned
DeleteResult_IdFromDelete(observed, org_delete) ==
    Result(org_delete.organization_id, org_delete.organization_name,
           org_delete.message, TRUE)

\* result after grafana_org_delete returned org_delete
DeleteResult(observed, org_delete) ==
    Result(observed.organization_id, org_delete.organization_name,
           org_delete.message, TRUE)

\* ------------------------------------------------------------------ states
\* no invocation ran before the first one
NoPrev ==
    [valid |-> FALSE, org_name |-> "", state |-> "", check_mode |-> FALSE,
     exited |-> FALSE, observe_returned |-> FALSE, lookup_status |-> -1,
     observed_id |-> -1, mutation_status |-> 0, changed |-> FALSE,
     reported_id |-> -1, mutated |-> FALSE]

\* what is remembered of an invocation that ended: its parameters, what the
\* lookup returned, the status of its POST or DELETE (0: none was issued),
\* what it reported and whether it changed the server's organizations
Summary ==
    LET exited == Len(reports) = 1 /\ reports[1].kind = "exit_json"
    IN  [valid |-> TRUE, org_name |-> params.org_name, state |-> params.state,
         check_mode |-> params.check_mode,
         exited |-> exited,
         observe_returned |-> raised.where # "Observe",
         lookup_status |-> org_exists.organization_status,
         observed_id |-> org_exists.organization_id,
         mutation_status |-> IF Len(calls) = 2 THEN last_resp.status ELSE 0,
         changed |-> exited /\ reports[1].changed,
         reported_id |-> IF exited THEN reports[1].org_id ELSE -1,
         mutated |-> remote # remote0]

InitRemotes ==
    { {}, {[id |-> 1, name |-> "acme"]}, {[id |-> 1, name |-> "Acme"]},
      {[id |-> 1, name |-> "acme"], [id |-> 2, name |-> "Acme"]} }

Init ==
    /\ remote \in InitRemotes
    /\ nextId = Cardinality(remote) + 1
    /\ pc = "idle"
    /\ params = [org_name |-> "acme", state |-> "present", check_mode |-> FALSE]
    /\ org_exists = GrafanaOrganization
    /\ result = ResultInit
    /\ calls = <<>>
    /\ reports = <<>>
    /\ raised = NotRaised
    /\ remote0 = remote
    /\ served = remote
    /\ last_resp = Response(-1, NoPayload, NoPayload)
    /\ prev = NoPrev
    /\ runs = 0

\* a new process runs the module: lines 178-208
Start(name, state, check_mode) ==
    /\ pc \in {"idle", "done"}
    /\ runs < MaxRuns
    /\ runs' = runs + 1
    /\ params' = [org_name |-> name, state |-> state, check_mode |-> check_mode]
    /\ org_exists' = GrafanaOrganization
    /\ result' = ResultInit
    /\ calls' = <<>>
    /\ reports' = <<>>
    /\ raised' = NotRaised
    /\ remote0' = remote
    /\ served' = remote
    /\ last_resp' = Response(-1, NoPayload, NoPayload)
    /\ prev' = IF pc = "done" THEN Summary ELSE NoPrev
    /\ pc' = "observe"
    /\ UNCHANGED <<remote, nextId>>

\* org_exists = grafana_org_exists(module, url, org_name, header)
Observe ==
    /\ pc = "observe"
    /\ LET call == Call("GET", OrgByNameUri(params.org_name), None)
       IN  \E resp \in GetResponses(remote, call.path[4]) :
         LET out == grafana_org_exists(resp, params.org_name)
         IN  /\ calls' = Append(calls, call)
             /\ last_resp' = resp
             /\ IF out.exc # ""
                THEN /\ raised' = [where |-> "Observe", text |-> out.exc]
                     /\ reports' = Append(reports, fail_json(out.exc))
                     /\ pc' = "done"
                     /\ UNCHANGED org_exists
                ELSE /\ org_exists' = out.org
                     /\ pc' = "decide"
                     /\ UNCHANGED <<raised, reports>>
    /\ served' = remote
    /\ UNCHANGED <<remote, nextId, params, result, remote0, prev, runs>>

\* lines 213-218, then exit_json or the except clause
Create ==
    /\ pc = "decide"
    /\ ShouldCreate(params.check_mode, params.state, org_exists)
    /\ LET call == Call("POST", OrgsUri, [name |-> params.org_name])
       IN  \E o \in PostOutcomes(remote, nextId, call.data.name) :
         LET out == grafana_org_create(o.resp, params.org_name)
         IN  /\ calls' = Append(calls, call)
             /\ last_resp' = o.resp
             /\ remote' = o.remote
             /\ served' = o.remote
             /\ nextId' = o.nextId
             /\ IF out.exc # ""
                THEN /\ raised' = [where |-> "Create", text |-> out.exc]
                     /\ reports' = Append(reports, fail_json(out.exc))
                     /\ UNCHANGED result
                ELSE /\ result' = CreateResult(out.org)
                     /\ reports' = Append(reports, exit_json(result'))
                     /\ UNCHANGED raised
    /\ pc' = "done"
    /\ UNCHANGED <<params, org_exists, remote0, prev, runs>>

\* lines 225-230, then exit_json or the except clause
Delete ==
    /\ pc = "decide"
    /\ ShouldDelete(params.check_mode, params.state, org_exists)
    /\ LET call == Call("DELETE", OrgByIdUri(org_exists.organization_id),
                        None)
       IN  \E o \in DeleteOutcomes(remote, nextId, call.path[3]) :
         LET out == grafana_org_delete(o.resp, params.org_name,
                                       org_exists.organization_id)
         IN  /\ calls' = Append(calls, call)
             /\ last_resp' = o.resp
             /\ remote' = o.remote
             /\ served' = o.remote
             /\ nextId' = o.nextId
             /\ IF out.exc # ""
                THEN /\ raised' = [where |-> "Delete", text |-> out.exc]
                     /\ reports' = Append(reports, fail_json(out.exc))
                     /\ UNCHANGED result
                ELSE /\ result' = DeleteResult(org_exists, out.org)
                     /\ reports' = Append(reports, exit_json(result'))
                     /\ UNCHANGED raised
    /\ pc' = "done"
    /\ UNCHANGED <<params, org_exists, remote0, prev, runs>>

\* the branches at lines 219-223, 231-235 and 236-259, then exit_json
NoMutation ==
    /\ pc = "decide"
    /\ ~ShouldCreate(params.check_mode, params.state, org_exists)
    /\ ~ShouldDelete(params.check_mode, params.state, org_exists)
    /\ result' = NoCallResult(params.check_mode, params.state, org_exists)
    /\ reports' = Append(reports, exit_json(result'))
    /\ pc' = "done"
    /\ UNCHANGED <<remote, nextId, params, org_exists, calls, raised,
                   remote0, served, last_resp, prev, runs>>

Next ==
    \/ \E n \in Names, s \in States, c \in BOOLEAN : Start(n, s, c)
    \/ Observe
    \/ Create
    \/ Delete
    \/ NoMutation

Spec == Init /\ [][Next]_vars


\* ------------------------------------------------------------- properties
Done == pc = "done"

\* number of calls of the current invocation that used the method
Count(method) ==
    Cardinality({i \in 1..Len(calls) : calls[i].method = method})

\* grafana_org_exists returned (did not raise) in the current invocation
ObserveReturned ==
    pc = "decide" \/ (pc = "done" /\ raised.where # "Observe")

\* the invocation ended with exit_json
Exited == Done /\ Len(reports) = 1 /\ reports[1].kind = "exit_json"

\* the invocation ended with fail_json
Failed == Done /\ Len(reports) = 1 /\ reports[1].kind = "fail_json"

\* C1: in check mode no POST and no DELETE is ever issued, whatever the
\* desired state and whatever the lookup returned, and the server's set of
\* organizations stays what it was when the invocation started.
C1_DryRunNeverMutates ==
    params.check_mode =>
        /\ Count("POST") = 0
        /\ Count("DELETE") = 0
        /\ remote = remote0

\* check mode, desired present, lookup failed although the organization
\* exists: reported as a pending creation, nothing was sent
C1_Witness ==
    /\ Exited
    /\ params.check_mode
    /\ params.state = "present"
    /\ org_exists.organization_id = -1
    /\ Found(remote0, params.org_name) # {}
    /\ reports[1].changed

\* C2 (as stated): desired present, lookup returned id -1, not check mode:
\* exactly one POST is issued and the invocation returns changed=true.
C2_CreateAlwaysReportsChanged ==
    (Done /\ ~params.check_mode /\ params.state = "present"
          /\ ObserveReturned /\ org_exists.organization_id = -1)
    => /\ Count("POST") = 1
       /\ Exited
       /\ reports[1].changed

\* C2 (amended): in that case exactly one POST is issued; the invocation
\* returns changed=true unless grafana_org_create raised on the response,
\* and then it ends with the failure report instead.
C2_CreateOnceChangedUnlessRaised ==
    (Done /\ ~params.check_mode /\ params.state = "present"
          /\ ObserveReturned /\ org_exists.organization_id = -1)
    => /\ Count("POST") = 1
       /\ Len(calls) = 2
       /\ calls[2] = Call("POST", <<"api", "orgs">>,
                          [name |-> params.org_name])
       /\ IF raised.where = ""
          THEN Exited /\ reports[1].changed
          ELSE raised.where = "Create" /\ Failed

\* the organization was missing and has been created with status 200
C2_Witness ==
    /\ Exited
    /\ ~params.check_mode
    /\ params.state = "present"
    /\ org_exists.organization_id = -1
    /\ Count("POST") = 1
    /\ reports[1].changed
    /\ reports[1].org_id # -1
    /\ [id |-> reports[1].org_id, name |-> params.org_name] \in remote \ remote0

\* C3 (as stated): desired absent, lookup returned a real id, not check
\* mode: exactly one DELETE, addressed by the id the lookup returned, no
\* POST, and the invocation returns changed=true.
C3_DeleteAlwaysReportsChanged ==
    (Done /\ ~params.check_mode /\ params.state = "absent"
          /\ ObserveReturned /\ org_exists.organization_id # -1)
    => /\ Count("DELETE") = 1
       /\ calls[2].path = <<"api", "orgs", org_exists.organization_id>>
       /\ Count("POST") = 0
       /\ Exited
       /\ reports[1].changed

\* C3 (amended): in that case exactly one DELETE is issued, addressed by
\* the id the lookup returned, and no POST; the invocation returns
\* changed=true unless grafana_org_delete raised on the response, and then
\* it ends with the failure report instead.
C3_DeleteByObservedIdChangedUnlessRaised ==
    (Done /\ ~params.check_mode /\ params.state = "absent"
          /\ ObserveReturned /\ org_exists.organization_id # -1)
    => /\ Count("DELETE") = 1
       /\ Len(calls) = 2
       /\ calls[2].method = "DELETE"
       /\ calls[2].path = <<"api", "orgs", org_exists.organization_id>>
       /\ Count("POST") = 0
       /\ IF raised.where = ""
          THEN Exited /\ reports[1].changed
          ELSE raised.where = "Delete" /\ Failed

\* the organization was found and has been deleted with status 200
C3_Witness ==
    /\ Exited
    /\ ~params.check_mode
    /\ params.state = "absent"
    /\ org_exists.organization_id # -1
    /\ Count("DELETE") = 1
    /\ reports[1].changed
    /\ Found(remote0, params.org_name) # {}
    /\ Found(remote, params.org_name) = {}

C5_AbsentAndMissingIsNoChange ==
    (Done /\ params.state = "absent"
          /\ ObserveReturned /\ org_exists.organization_id = -1)
    => /\ Exited
       /\ ~reports[1].changed
       /\ Count("POST") = 0
       /\ Count("DELETE") = 0
       /\ remote = remote0

\* a real run (not check mode) was to remove an organization that the
\* server does not hold
C5_Witness ==
    /\ Exited
    /\ ~params.check_mode
    /\ params.state = "absent"
    /\ org_exists.organization_id = -1
    /\ Found(remote0, params.org_name) = {}
    /\ ~reports[1].changed


\* a create or a delete is what run_module's decision asks for
Warranted ==
    \/ params.state = "present" /\ org_exists.organization_id = -1
    \/ params.state = "absent" /\ org_exists.organization_id # -1

\* C6: an invocation issues exactly one GET by name, and it is its first
\* call; it issues at most one POST or DELETE, after the GET; and when the
\* lookup returned, a mutation is warranted and check mode is off, that
\* POST or DELETE has been issued when the invocation ends.
C6_OneObserveAtMostOneMutation ==
    /\ Len(calls) <= 2
    /\ Count("GET") <= 1
    /\ Count("POST") + Count("DELETE") <= 1
    /\ calls # <<>> =>
         calls[1] = Call("GET", <<"api", "orgs", "name", params.org_name>>,
                         None)
    /\ pc \in {"decide", "done"} => Count("GET") = 1
    /\ (Done /\ ObserveReturned /\ Warranted /\ ~params.check_mode) =>
         /\ Len(calls) = 2
         /\ calls[2].method =
              IF params.state = "present" THEN "POST" ELSE "DELETE"

\* a real run whose lookup failed with no connection went on to create
C6_Witness ==
    /\ Done
    /\ ~params.check_mode
    /\ org_exists.organization_status = -1
    /\ Len(calls) = 2
    /\ calls[1].method = "GET"
    /\ calls[2].method = "POST"

\* C7 (as stated): the reported changed flag is true exactly when the
\* invocation altered the server's organizations (real run) or would alter
\* them (check mode: a real run would issue the create or delete);
\* changed=true is never reported by a real run that left the server's
\* organizations as they were.
C7_ChangedIffRemoteAltered ==
    Exited =>
        /\ reports[1].changed <=>
             IF params.check_mode THEN Warranted ELSE remote # remote0
        /\ (~params.check_mode /\ reports[1].changed) => remote # remote0

C9_OrgIdMinusOneInCheckMode ==
    Exited =>
        /\ params.check_mode => reports[1].org_id = -1
        /\ (params.state = "absent" /\ Found(remote0, params.org_name) = {})
             => reports[1].org_id = -1

\* C10: an invocation ends with exactly one report.  When one of
\* grafana_org_exists, grafana_org_create, grafana_org_delete raised, the
\* report is fail_json with failed=True and msg "error : <exception text>"
\* and nothing else (no org_id, org_name, changed), and there is no
\* exit_json; no call is issued twice and what the server applied stays
\* applied.  When none raised, the report is one exit_json with
\* failed=False carrying changed, msg, org_id and org_name.
C10_FailureSemantics ==
    /\ ~Done => reports = <<>>
    /\ (raised.where # "") => Done
    /\ \A m \in {"GET", "POST", "DELETE"} : Count(m) <= 1
    /\ remote = served
    /\ Done =>
         /\ Len(reports) = 1
         /\ IF raised.where # ""
            THEN /\ raised.text # ""
                 /\ reports[1] = [kind |-> "fail_json", failed |-> TRUE,
                                  msg |-> "error : " \o raised.text]
            ELSE /\ reports[1].kind = "exit_json"
                 /\ reports[1].failed = FALSE
                 /\ DOMAIN reports[1] = {"kind", "failed", "changed", "msg",
                                         "org_id", "org_name"}

\* the create was applied by the server, its response could not be read:
\* one failure report, the new organization is still there
C10_Witness ==
    /\ Failed
    /\ raised.where = "Create"
    /\ Len(calls) = 2
    /\ Found(remote0, params.org_name) = {}
    /\ Found(remote, params.org_name) # {}


\* the transport returned no response object and info holds no body
NoResponse(resp) == resp.r.kind = "none" /\ resp.info_body.kind = "none"

\* what the transport delivered: r when there is one, else info["body"]
Delivered(resp) == IF resp.r.kind # "none" THEN resp.r ELSE resp.info_body

\* the delivered body is a JSON object with a message field
HasMessage(resp) ==
    Delivered(resp).kind = "json" /\ "message" \in Delivered(resp).has

\* the invocation issued its POST or DELETE; last_resp is its response
MutationIssued == Done /\ Len(calls) = 2

\* the fallback body of the call that was issued last
FallbackMessage ==
    IF Len(calls) = 2
    THEN IF calls[2].method = "POST"
         THEN "Organization could not be created"
         ELSE "Organization could not be deleted"
    ELSE "Cannot search organization"

\* C11 (as stated): a status other than 200 on the POST or DELETE never
\* raises: the invocation ends with exit_json, failed=False, changed=true,
\* and msg is the message of the response body, or the fixed fallback when
\* the transport returned no response object.
C11_FailedMutationNeverRaises ==
    (MutationIssued /\ last_resp.status # HTTP_OK)
    => /\ raised.where = ""
       /\ Exited
       /\ ~reports[1].failed
       /\ reports[1].changed
       /\ reports[1].msg = IF NoResponse(last_resp) THEN FallbackMessage
                           ELSE Delivered(last_resp).message

\* C11 (amended): a status other than 200 on the POST or DELETE, with a
\* JSON body that has a message field or with no response object and no
\* body at all, does not raise: exit_json, failed=False, changed=true, msg
\* the body's message, or the fixed fallback in the second case.  With a
\* body that is not JSON or has no message field the helper raises and the
\* invocation ends with the failure report.
C11_FailedMutationReportedByMessage ==
    (MutationIssued /\ last_resp.status # HTTP_OK)
    => IF NoResponse(last_resp) \/ HasMessage(last_resp)
       THEN /\ raised.where = ""
            /\ Exited
            /\ ~reports[1].failed
            /\ reports[1].changed
            /\ reports[1].msg = IF NoResponse(last_resp) THEN FallbackMessage
                                ELSE Delivered(last_resp).message
       ELSE /\ Failed
            /\ raised.where \in {"Create", "Delete"}

\* the DELETE got no response at all: success report with the fallback
C11_Witness ==
    /\ Exited
    /\ Len(calls) = 2
    /\ calls[2].method = "DELETE"
    /\ NoResponse(last_resp)
    /\ reports[1].changed
    /\ reports[1].msg = "Organization could not be deleted"
    /\ remote = remote0

\* the invocation before the current one was a real run that ended with
\* exit_json, whose lookup the server answered (200 or 404) and whose POST
\* or DELETE, if any, returned 200; the current one has the same name and
\* desired state
AfterCleanRun ==
    /\ prev.valid
    /\ ~prev.check_mode
    /\ prev.exited
    /\ prev.lookup_status \in {HTTP_OK, HTTP.not_found}
    /\ prev.mutation_status \in {0, HTTP_OK}
    /\ prev.org_name = params.org_name
    /\ prev.state = params.state

\* C12 (as stated): after such a run, a second invocation with the same
\* name and desired state issues no POST and no DELETE and, when it
\* reports a result, reports changed=false, and with state present the id
\* the first one reported.
C12_SecondRunIsNoOp ==
    (Done /\ AfterCleanRun)
    => /\ Count("POST") = 0
       /\ Count("DELETE") = 0
       /\ Exited =>
            /\ ~reports[1].changed
            /\ params.state = "present" =>
                 reports[1].org_id = prev.reported_id

\* C12 (amended): the same, for a second invocation whose own lookup the
\* server answered (200 or 404) and on which grafana_org_exists did not
\* raise.
C12_SecondRunIsNoOpWhenLookupAnswered ==
    (Done /\ AfterCleanRun /\ raised.where # "Observe"
          /\ org_exists.organization_status \in {HTTP_OK, HTTP.not_found})
    => /\ Count("POST") = 0
       /\ Count("DELETE") = 0
       /\ remote = remote0
       /\ Exited
       /\ ~reports[1].changed
       /\ params.state = "present" =>
            /\ reports[1].org_id = prev.reported_id
            /\ reports[1].org_id # -1

\* the first run created the organization, the second real run finds it
C12_Witness ==
    /\ Exited
    /\ AfterCleanRun
    /\ prev.mutation_status = HTTP_OK
    /\ params.state = "present"
    /\ ~params.check_mode
    /\ ~reports[1].changed
    /\ reports[1].org_id = prev.reported_id
    /\ reports[1].org_id # -1

\* the lookup is the only call so far and last_resp is its response
LookupJustDone == Len(calls) = 1 /\ pc \in {"decide", "done"}

\* C13 (as stated): for every status other than 200 of the lookup,
\* grafana_org_exists returns id -1 without raising, with the body's
\* message when the body has one and the fixed fallback otherwise.
C13_FailedLookupNeverRaises ==
    (LookupJustDone /\ last_resp.status # HTTP_OK)
    => /\ raised.where = ""
       /\ org_exists.organization_id = -1
       /\ org_exists.message = IF HasMessage(last_resp)
                               THEN Delivered(last_resp).message
                               ELSE "Cannot search organization"

\* C13 (amended): for every status other than 200 of the lookup,
\* grafana_org_exists returns id -1 without raising, with the body's
\* message, when the body is JSON with a message field, and with the fixed
\* fallback when there is neither a response object nor a body.  A body
\* that is not JSON or has no message field makes it raise, and the
\* invocation ends with the failure report.
C13_FailedLookupDegradesWhenReadable ==
    (LookupJustDone /\ last_resp.status # HTTP_OK)
    => IF NoResponse(last_resp) \/ HasMessage(last_resp)
       THEN /\ raised.where = ""
            /\ org_exists.organization_id = -1
            /\ org_exists.organization_name = params.org_name
            /\ org_exists.organization_status = last_resp.status
            /\ org_exists.message = IF NoResponse(last_resp)
                                    THEN "Cannot search organization"
                                    ELSE Delivered(last_resp).message
       ELSE /\ raised.where = "Observe"
            /\ Failed

\* a 404 with a message: absent, with the server's message
C13_Witness ==
    /\ pc = "decide"
    /\ last_resp.status = HTTP.not_found
    /\ HasMessage(last_resp)
    /\ org_exists.organization_id = -1
    /\ org_exists.message = "Organization not found"

\* C14: when the lookup gets no response object and no body,
\* grafana_org_exists returns id -1 with message "Cannot search
\* organization" and does not raise; run_module goes on to its decision as
\* for an absent organization: it does not end in the failure report, and
\* it ends without a further call only in check mode or with state absent.
C14_NoResponseLookupDegrades ==
    (LookupJustDone /\ NoResponse(last_resp))
    => /\ raised.where = ""
       /\ org_exists.organization_id = -1
       /\ org_exists.message = "Cannot search organization"
       /\ Done =>
            /\ Exited
            /\ params.check_mode \/ params.state = "absent"
            /\ reports[1].org_id = -1
            /\ reports[1].changed <=> params.state = "present"

\* no connection for the lookup of an organization the server holds
C14_Witness ==
    /\ pc = "decide"
    /\ last_resp.status = HTTP.no_connection
    /\ NoResponse(last_resp)
    /\ org_exists.message = "Cannot search organization"
    /\ Found(remote, params.org_name) # {}

\* C15: after a real run's POST, the reported id is the orgId of the
\* response when the status is 200 and -1 otherwise, and the reported name
\* is the org_name parameter in both cases.
C15_CreateReportsResponseId ==
    (Exited /\ Len(calls) = 2 /\ calls[2].method = "POST")
    => /\ reports[1].org_name = params.org_name
       /\ IF last_resp.status = HTTP_OK
          THEN /\ reports[1].org_id = Delivered(last_resp).orgId
               /\ [id |-> reports[1].org_id, name |-> params.org_name]
                    \in remote
          ELSE reports[1].org_id = -1

\* the name was taken (409): id -1 and the name as supplied
C15_Witness ==
    /\ Exited
    /\ Len(calls) = 2
    /\ calls[2].method = "POST"
    /\ last_resp.status = HTTP.conflict
    /\ reports[1].org_id = -1
    /\ reports[1].org_name = params.org_name


\* C16: a POST is issued only in an invocation whose lookup returned id -1
\* and whose desired state is present: never after a lookup that returned
\* a real id, never with state absent (and never before the lookup).
C16_CreateOnlyWhenAbsentAndWanted ==
    Count("POST") >= 1
    => /\ params.state = "present"
       /\ raised.where # "Observe"
       /\ org_exists.organization_id = -1
       /\ org_exists.organization_status # HTTP_OK
       /\ Len(calls) = 2
       /\ calls[1].method = "GET"
       /\ calls[2].method = "POST"

\* the server said 404 for a name it does not hold, and the POST followed
C16_Witness ==
    /\ Count("POST") = 1
    /\ params.state = "present"
    /\ org_exists.organization_status = HTTP.not_found
    /\ Found(remote0, params.org_name) = {}
    /\ Found(remote, params.org_name) # {}

\* the current lookup returned, the invocation before looked the same name
\* up, its lookup returned too, and it did not change the server's
\* organizations; the name is held by the server
RepeatedLookup ==
    /\ pc \in {"decide", "done"}
    /\ raised.where # "Observe"
    /\ prev.valid
    /\ prev.observe_returned
    /\ ~prev.mutated
    /\ prev.org_name = params.org_name
    /\ Found(remote0, params.org_name) # {}

\* C17 (as stated): the lookup leaves the server's organizations as they
\* were, and two lookups of a name the server holds, with no mutation in
\* between, return the same id.
C17_RepeatedLookupSameId ==
    /\ pc = "decide" => remote = remote0
    /\ RepeatedLookup => org_exists.organization_id = prev.observed_id

\* C17 (amended): the lookup leaves the server's organizations as they
\* were, and two lookups of a name the server holds, with no mutation in
\* between, that are both answered with status 200 return the same id,
\* the id the server holds for the name; a lookup that is answered with
\* another status returns -1 instead.
C17_AnsweredLookupsSameId ==
    /\ pc = "decide" => remote = remote0
    /\ RepeatedLookup =>
         /\ (prev.lookup_status = HTTP_OK
             /\ org_exists.organization_status = HTTP_OK)
              => org_exists.organization_id = prev.observed_id
         /\ org_exists.organization_status = HTTP_OK
              => [id |-> org_exists.organization_id,
                  name |-> params.org_name] \in remote0
         /\ org_exists.organization_status # HTTP_OK
              => org_exists.organization_id = -1

\* the second of two lookups of an existing organization, both answered
C17_Witness ==
    /\ RepeatedLookup
    /\ pc = "decide"
    /\ prev.lookup_status = HTTP_OK
    /\ org_exists.organization_status = HTTP_OK
    /\ org_exists.organization_id = prev.observed_id
    /\ org_exists.organization_id # -1


\* the invocation before was a check-mode run that reported a result; the
\* current one is a real run with the same name and desired state, it
\* started from the same organizations on the server, and its lookup
\* returned the same observed state (found or not found)
RealRunAfterDryRun ==
    /\ prev.valid
    /\ prev.check_mode
    /\ prev.exited
    /\ ~prev.mutated
    /\ ~params.check_mode
    /\ prev.org_name = params.org_name
    /\ prev.state = params.state
    /\ Exited
    /\ (prev.observed_id = -1) <=> (org_exists.organization_id = -1)

\* C18: for every desired state and observed state, the check-mode run
\* reports the changed value that the real run from the same server state
\* reports, whether the real run's POST or DELETE returned 200 or not.
C18_CheckModePredictsChanged ==
    RealRunAfterDryRun => reports[1].changed = prev.changed

\* check mode announced a creation; the real run's POST then failed with
\* 500 and still reported changed=true
C18_Witness ==
    /\ RealRunAfterDryRun
    /\ prev.changed
    /\ Len(calls) = 2
    /\ calls[2].method = "POST"
    /\ last_resp.status = HTTP.server_error
    /\ reports[1].changed

\* the status the lookup of the invocation was answered with
LookupStatus ==
    IF raised.where = "Observe" THEN last_resp.status
    ELSE org_exists.organization_status

\* C19 (as stated): with state absent, a lookup answered with a status
\* other than 200 never leads to a DELETE and the invocation reports
\* success with changed=false and id -1, even when the server holds the
\* organization; with state present outside check mode, such a lookup
\* leads to a POST, even when the server holds the organization.
C19_FailedLookupTreatedAsAbsent ==
    (Done /\ LookupStatus # HTTP_OK)
    => /\ params.state = "absent" =>
            /\ Count("DELETE") = 0
            /\ Exited
            /\ ~reports[1].changed
            /\ reports[1].org_id = -1
       /\ (params.state = "present" /\ ~params.check_mode) =>
            Count("POST") = 1

\* C19 (amended): the same, provided grafana_org_exists did not raise on
\* the lookup response (JSON body with a message field, or no response
\* and no body); when it raised, neither a DELETE nor a POST is issued and
\* the invocation ends with the failure report.
C19_ReadableFailedLookupTreatedAsAbsent ==
    (Done /\ LookupStatus # HTTP_OK)
    => IF raised.where = "Observe"
       THEN /\ Failed
            /\ Len(calls) = 1
       ELSE /\ params.state = "absent" =>
                 /\ Count("DELETE") = 0
                 /\ Len(calls) = 1
                 /\ Exited
                 /\ ~reports[1].changed
                 /\ reports[1].org_id = -1
            /\ (params.state = "present" /\ ~params.check_mode) =>
                 /\ Count("POST") = 1
                 /\ calls[2].data = [name |-> params.org_name]

\* the server holds the organization, the lookup got a 500: the real run
\* with state present posts it again and the server answers 409
C19_Witness ==
    /\ Done
    /\ params.state = "present"
    /\ ~params.check_mode
    /\ org_exists.organization_status = HTTP.server_error
    /\ Found(remote0, params.org_name) # {}
    /\ Count("POST") = 1
    /\ last_resp.status = HTTP.conflict

\* C20: after a real run's DELETE, the reported id is the id the lookup
\* returned, whether the DELETE returned 200 or not (the -1 that
\* grafana_org_delete yields on another status is not reported), and the
\* reported message is the one of the DELETE response.
C20_DeleteReportsObservedId ==
    (Exited /\ Len(calls) = 2 /\ calls[2].method = "DELETE")
    => /\ reports[1].org_id = org_exists.organization_id
       /\ reports[1].org_id # -1
       /\ calls[2].path = <<"api", "orgs", reports[1].org_id>>
       /\ reports[1].msg = IF NoResponse(last_resp)
                           THEN "Organization could not be deleted"
                           ELSE Delivered(last_resp).message

\* the DELETE was answered 500 with a message: the observed id is reported
C20_Witness ==
    /\ Exited
    /\ Len(calls) = 2
    /\ calls[2].method = "DELETE"
    /\ last_resp.status = HTTP.server_error
    /\ reports[1].org_id # -1
    /\ reports[1].msg = "Internal Server Error"

====
